---- MODULE Spec2Model ----
(***************************************************************************)
(* The cultural-object catalogue of backend/objects: the record store, the *)
(* visibility rule of ObjectViewSet.get_queryset, the write path           *)
(* (create / update / destroy) with its permission and validation steps,   *)
(* and the moderation actions of the admin site.                           *)
(*                                                                         *)
(* One request is one atomic step.  Coordinates are decimals with three    *)
(* fractional digits, written as integers in thousandths (44.0 = 44000).   *)
(* Time is a logical clock that advances by one at every write.            *)
(***************************************************************************)
EXTENDS Integers, Sequences, FiniteSets, TLC

\* ------------------------------------------------------------------ bounds
MaxRecords == 2
MaxTime == 3
MaxTags == 6

\* ------------------------------------------------------------ identities
Anonymous == "anon"
Users == {"u1", "u2", "admin"}
Callers == Users \cup {Anonymous}

is_staff(user) == user = "admin"
is_authenticated(user) == user \in Users

\* ------------------------------------------------------------- the model
STATUS_CHOICES == {"pending", "approved", "archived"}
Null == 0

\* An optional value is the empty set or a singleton.
The(opt) == CHOOSE v \in opt : TRUE

EmptyData ==
  [title |-> {}, latitude |-> {}, longitude |-> {}, tags |-> {},
   status |-> {}, author |-> {}]

FullData(t, tg) ==
  [title |-> {t}, latitude |-> {50000}, longitude |-> {30000}, tags |-> {tg},
   status |-> {}, author |-> {}]

\* The request bodies the callers send: complete and partial ones, valid and
\* invalid ones, and ones that carry the read-only status and author keys.
Payloads ==
  { FullData("a", {1}),
    FullData("b", {1, 2}),
    [FullData("a", {1}) EXCEPT !.status = {"approved"}, !.author = {"u2"}],
    [FullData("a", {1}) EXCEPT !.latitude = {43999}],
    FullData("b", 1..MaxTags),
    [EmptyData EXCEPT !.longitude = {40501}],
    [FullData("b", {1}) EXCEPT !.title = {}],
    [EmptyData EXCEPT !.title = {"b"}],
    [EmptyData EXCEPT !.tags = {{2}}],
    [EmptyData EXCEPT !.tags = {{}}],
    [EmptyData EXCEPT !.title = {"a"}, !.status = {"archived"}, !.author = {"admin"}],
    [EmptyData EXCEPT !.status = {"approved"}] }

\* The tags filters a list request carries: none, one tag, two tags.
TagFilters == {{}, {{1}}, {{1, 2}}}

VARIABLES store, now, req, resp, before

vars == <<store, now, req, resp, before>>

Ids == 1..Len(store)

\* A request: the operation, the caller, the id of a detail route, the
\* selection of an admin action, the body (once the handler has read it), the
\* PATCH flag and the tags filter of a list.
Request(op, caller, id, selection, data, partial, tags) ==
  [op |-> op, caller |-> caller, id |-> id, selection |-> selection,
   data |-> data, partial |-> partial, tags |-> tags]

NoRequest == Request("none", Anonymous, 0, {}, {}, FALSE, {})

Response(code, rows, errors, detail) ==
  [code |-> code, rows |-> rows, errors |-> errors, detail |-> detail]

NoResponse == Response(0, <<>>, {}, "")

\* No request is being handled: the last response has been sent.
Idle == req = NoRequest

Init ==
  /\ store = <<>>
  /\ now = 0
  /\ req = NoRequest
  /\ resp = NoResponse
  /\ before = <<>>

\* ------------------------------------------------------------ visibility
\* get_queryset with the author test dropped for authenticated callers.
InQueryset_authSeesAll(user, obj) ==
  /\ obj.status # "archived"
  /\ (is_authenticated(user) \/ obj.status = "approved")

\* get_queryset without exclude(status='archived').
InQueryset_withArchived(user, obj) ==
  \/ is_staff(user)
  \/ is_authenticated(user) /\ (obj.status = "approved" \/ obj.author = user)
  \/ ~is_authenticated(user) /\ obj.status = "approved"

\* ObjectViewSet.get_queryset: the predicate of the queryset.
InQueryset(user, obj) ==
  /\ obj.status # "archived"
  /\ \/ is_staff(user)
     \/ is_authenticated(user) /\ (obj.status = "approved" \/ obj.author = user)
     \/ ~is_authenticated(user) /\ obj.status = "approved"

\* Whether get_queryset applied .distinct() for this caller.
QuerysetDistinct(user) == ~is_staff(user) /\ is_authenticated(user)

\* CulturalObject.objects.all() as the queryset.
get_queryset_all(user, objs) == 1..Len(objs)

get_queryset(user, objs) == {i \in 1..Len(objs) : InQueryset(user, objs[i])}

\* ObjectFilter.tags: tags__id__in joins the tag table, one row per matching
\* tag of a record unless the queryset is distinct.
FilterRows(user, obj, filt) ==
  IF filt = {} THEN 1
  ELSE IF QuerysetDistinct(user)
       THEN (IF obj.tags \cap The(filt) # {} THEN 1 ELSE 0)
       ELSE Cardinality(obj.tags \cap The(filt))

Repeat(x, n) == [k \in 1..n |-> x]

\* The rows of list, newest first (Meta.ordering = ['-created_at']; records
\* are created at strictly increasing times, so newest first is highest id
\* first).
RECURSIVE ListRows(_, _, _, _)
ListRows(user, objs, filt, i) ==
  IF i = 0 THEN <<>>
  ELSE (IF InQueryset(user, objs[i])
        THEN Repeat(i, FilterRows(user, objs[i], filt))
        ELSE <<>>) \o ListRows(user, objs, filt, i - 1)

\* my answered from get_queryset instead of the author filter.
MyRows_fromQueryset(user, objs, i) == ListRows(user, objs, {}, i)

RECURSIVE MyRows(_, _, _)
MyRows(user, objs, i) ==
  IF i = 0 THEN <<>>
  ELSE (IF objs[i].author = user /\ objs[i].status # "archived"
        THEN <<i>> ELSE <<>>) \o MyRows(user, objs, i - 1)

\* ----------------------------------------------------------- permissions
SAFE_METHODS == {"list", "retrieve"}

\* permission_classes without IsAuthenticatedOrReadOnly (AllowAny).
IsAuthenticatedOrReadOnly_allowAny(op, user) == TRUE

\* A request-level permission that lets anyone create.
IsAuthenticatedOrReadOnly_createOpen(op, user) ==
  op \in SAFE_METHODS \cup {"create"} \/ is_authenticated(user)

\* rest_framework IsAuthenticatedOrReadOnly, first of permission_classes.
IsAuthenticatedOrReadOnly(op, user) ==
  op \in SAFE_METHODS \/ is_authenticated(user)

\* permissions.IsAuthorOrReadOnly, the object-level check: reads are open,
\* a write needs the author or a staff user.
IsAuthorOrReadOnly(op, user, obj) ==
  op \in SAFE_METHODS \/ obj.author = user \/ is_staff(user)

\* ------------------------------------------------------------ validation
\* Meta.fields with status and author among the writable fields.
to_internal_value_keepsAll(data) == data

\* The declared fields of ObjectWriteSerializer: a key that is not one of
\* Meta.fields never reaches validated_data.
to_internal_value(data) == [data EXCEPT !.status = {}, !.author = {}]

\* Limits that exclude the boundary values.
LatitudeInRange_exclusive(v) == 44000 < v /\ v < 52500

\* The range validators of the model's latitude and longitude fields, which
\* the ModelSerializer field carries as min_value / max_value.
LatitudeInRange(v) == 44000 <= v /\ v <= 52500
LongitudeInRange(v) == 22000 <= v /\ v <= 40500

\* validate_tags with the upper test written as >= 5.
validate_tags_rejectsFive(value) ==
  ~(Cardinality(value) < 1) /\ ~(Cardinality(value) >= 5)

\* validate_tags without the upper test.
validate_tags_noUpper(value) == ~(Cardinality(value) < 1)

\* validate_tags without the lower test.
validate_tags_allowsNone(value) == ~(Cardinality(value) > 5)

\* ObjectWriteSerializer.validate_tags.
validate_tags(value) ==
  ~(Cardinality(value) < 1) /\ ~(Cardinality(value) > 5)

\* Field-level validation without the range validators of the model fields,
\* which leaves the coordinate limits to validate() alone.
FieldErrors_withoutRangeValidators(data, partial) ==
  {f \in {"title", "latitude", "longitude", "tags"} :
     \/ data[f] = {} /\ ~partial
     \/ f = "tags" /\ data[f] # {} /\ ~validate_tags(The(data[f]))}

\* Field-level validation: every field is checked and every failing field
\* is reported.  A missing field is an error unless the update is partial.
FieldErrors(data, partial) ==
  {f \in {"title", "latitude", "longitude", "tags"} :
     \/ data[f] = {} /\ ~partial
     \/ f = "latitude" /\ data[f] # {} /\ ~LatitudeInRange(The(data[f]))
     \/ f = "longitude" /\ data[f] # {} /\ ~LongitudeInRange(The(data[f]))
     \/ f = "tags" /\ data[f] # {} /\ ~validate_tags(The(data[f]))}

\* ObjectWriteSerializer.validate: the latitude is checked first and raises;
\* the longitude is checked only if the latitude passed.
validate(data) ==
  IF data.latitude # {} /\
     (The(data.latitude) < 44000 \/ The(data.latitude) > 52500)
  THEN {"latitude"}
  ELSE IF data.longitude # {} /\
          (The(data.longitude) < 22000 \/ The(data.longitude) > 40500)
       THEN {"longitude"}
       ELSE {}

\* serializer.is_valid: the object-level validate runs only when no field
\* failed.
Errors(data, partial) ==
  IF FieldErrors(data, partial) # {} THEN FieldErrors(data, partial)
  ELSE validate(to_internal_value(data))

\* --------------------------------------------------------------- writes
\* serializer.save(**kwargs) on a new record: Model.objects.create with the
\* validated data and the keyword arguments, then the tags are set.
SerializerCreate(vd, t) ==
  [title |-> The(vd.title),
   latitude |-> The(vd.latitude),
   longitude |-> The(vd.longitude),
   tags |-> The(vd.tags),
   status |-> IF vd.status # {} THEN The(vd.status) ELSE "pending",
   author |-> The(vd.author),
   created_at |-> t,
   updated_at |-> t,
   archived_at |-> Null]

\* An update that adds the submitted tags to the tags the record has.
SerializerUpdate_mergesTags(instance, vd, t) ==
  [instance EXCEPT
     !.title = IF vd.title # {} THEN The(vd.title) ELSE @,
     !.latitude = IF vd.latitude # {} THEN The(vd.latitude) ELSE @,
     !.longitude = IF vd.longitude # {} THEN The(vd.longitude) ELSE @,
     !.tags = IF vd.tags # {} THEN @ \cup The(vd.tags) ELSE @,
     !.status = IF vd.status # {} THEN The(vd.status) ELSE @,
     !.author = IF vd.author # {} THEN The(vd.author) ELSE @,
     !.updated_at = t]

\* serializer.save(**kwargs) on an instance: every attribute in the
\* validated data is set, the row is saved whole (auto_now stamps
\* updated_at), and a tags value replaces the tag set.
SerializerUpdate(instance, vd, t) ==
  [instance EXCEPT
     !.title = IF vd.title # {} THEN The(vd.title) ELSE @,
     !.latitude = IF vd.latitude # {} THEN The(vd.latitude) ELSE @,
     !.longitude = IF vd.longitude # {} THEN The(vd.longitude) ELSE @,
     !.tags = IF vd.tags # {} THEN The(vd.tags) ELSE @,
     !.status = IF vd.status # {} THEN The(vd.status) ELSE @,
     !.author = IF vd.author # {} THEN The(vd.author) ELSE @,
     !.updated_at = t]

\* ObjectViewSet.perform_create.
perform_create(user, data, t) ==
  SerializerCreate([to_internal_value(data) EXCEPT !.author = {user}], t)

\* perform_update that always calls serializer.save().
perform_update_neverResets(user, instance, data, t) ==
  SerializerUpdate(instance, to_internal_value(data), t)

\* perform_update without the is_staff test.
perform_update_resetsStaff(user, instance, data, t) ==
  IF instance.status = "approved"
  THEN SerializerUpdate(instance,
                        [to_internal_value(data) EXCEPT !.status = {"pending"}], t)
  ELSE SerializerUpdate(instance, to_internal_value(data), t)

\* perform_update that saves with author=request.user, as perform_create
\* does.
perform_update_setsAuthor(user, instance, data, t) ==
  IF ~is_staff(user) /\ instance.status = "approved"
  THEN SerializerUpdate(instance,
                        [to_internal_value(data) EXCEPT !.status = {"pending"},
                                                        !.author = {user}], t)
  ELSE SerializerUpdate(instance,
                        [to_internal_value(data) EXCEPT !.author = {user}], t)

\* ObjectViewSet.perform_update.
perform_update(user, instance, data, t) ==
  IF ~is_staff(user) /\ instance.status = "approved"
  THEN SerializerUpdate(instance,
                        [to_internal_value(data) EXCEPT !.status = {"pending"}], t)
  ELSE SerializerUpdate(instance, to_internal_value(data), t)

\* archive that does not stamp archived_at.
archive_noTimestamp(obj, t) == [obj EXCEPT !.status = "archived"]

\* CulturalObject.archive: save(update_fields=['status', 'archived_at'])
\* writes these two columns only.
archive(obj, t) == [obj EXCEPT !.status = "archived", !.archived_at = t]

\* restore that leaves archived_at set.
restore_keepsArchivedAt(obj) == [obj EXCEPT !.status = "pending"]

\* CulturalObject.restore.
restore(obj) == [obj EXCEPT !.status = "pending", !.archived_at = Null]

\* ------------------------------------------------------------- requests
\* The object permission decided on the stored row before the lookup in the
\* queryset.
get_object_permissionFirst(op, user, id, objs) ==
  IF ~IsAuthenticatedOrReadOnly(op, user) THEN 401
  ELSE IF id \in 1..Len(objs) /\ ~IsAuthorOrReadOnly(op, user, objs[id]) THEN 403
  ELSE IF id \notin get_queryset(user, objs) THEN 404
  ELSE 200

\* A lookup that never calls check_object_permissions.
get_object_noObjectPermission(op, user, id, objs) ==
  IF ~IsAuthenticatedOrReadOnly(op, user) THEN 401
  ELSE IF id \notin get_queryset(user, objs) THEN 404
  ELSE 200

\* What a detail route does before its handler body runs: APIView.initial
\* checks permission_classes at the request level (an anonymous write is
\* refused with 401), get_object looks the id up in get_queryset (404) and
\* then checks the object-level permissions (403).
get_object(op, user, id, objs) ==
  IF ~IsAuthenticatedOrReadOnly(op, user) THEN 401
  ELSE IF id \notin get_queryset(user, objs) THEN 404
  ELSE IF ~IsAuthorOrReadOnly(op, user, objs[id]) THEN 403
  ELSE 200

\* POST /objects/
Create ==
  \E user \in Callers :
    /\ Idle
    /\ before' = store
    /\ IF ~IsAuthenticatedOrReadOnly("create", user)
       THEN /\ req' = Request("create", user, 0, {}, {}, FALSE, {})
            /\ resp' = Response(401, <<>>, {}, "")
            /\ UNCHANGED <<store, now>>
       ELSE \E data \in Payloads :
              /\ req' = Request("create", user, 0, {}, {data}, FALSE, {})
              /\ IF Errors(data, FALSE) # {}
                 THEN /\ resp' = Response(400, <<>>, Errors(data, FALSE), "")
                      /\ UNCHANGED <<store, now>>
                 ELSE /\ Len(store) < MaxRecords
                      /\ now < MaxTime
                      /\ now' = now + 1
                      /\ store' = Append(store, perform_create(user, data, now + 1))
                      /\ resp' = Response(201, <<Len(store) + 1>>, {}, "")

\* PUT / PATCH /objects/{id}/
Update ==
  \E user \in Callers, id \in 1..(MaxRecords + 1), partial \in BOOLEAN :
    /\ Idle
    /\ before' = store
    /\ IF get_object("update", user, id, store) # 200
       THEN /\ req' = Request("update", user, id, {}, {}, partial, {})
            /\ resp' = Response(get_object("update", user, id, store), <<>>, {}, "")
            /\ UNCHANGED <<store, now>>
       ELSE \E data \in Payloads :
              /\ req' = Request("update", user, id, {}, {data}, partial, {})
              /\ IF Errors(data, partial) # {}
                 THEN /\ resp' = Response(400, <<>>, Errors(data, partial), "")
                      /\ UNCHANGED <<store, now>>
                 ELSE /\ now < MaxTime
                      /\ now' = now + 1
                      /\ store' = [store EXCEPT
                                     ![id] = perform_update(user, @, data, now + 1)]
                      /\ resp' = Response(200, <<id>>, {}, "")

\* DELETE /objects/{id}/  (ObjectViewSet.destroy)
Destroy ==
  \E user \in Callers, id \in 1..(MaxRecords + 1) :
    /\ Idle
    /\ before' = store
    /\ req' = Request("destroy", user, id, {}, {}, FALSE, {})
    /\ IF get_object("destroy", user, id, store) # 200
       THEN /\ resp' = Response(get_object("destroy", user, id, store), <<>>, {}, "")
            /\ UNCHANGED <<store, now>>
       ELSE /\ now < MaxTime
            /\ now' = now + 1
            /\ store' = [store EXCEPT ![id] = archive(@, now + 1)]
            /\ resp' = Response(200, <<>>, {}, "archived")

\* GET /objects/{id}/
Retrieve ==
  \E user \in Callers, id \in 1..(MaxRecords + 1) :
    /\ Idle
    /\ before' = store
    /\ req' = Request("retrieve", user, id, {}, {}, FALSE, {})
    /\ resp' = IF get_object("retrieve", user, id, store) = 200
               THEN Response(200, <<id>>, {}, "")
               ELSE Response(get_object("retrieve", user, id, store), <<>>, {}, "")
    /\ UNCHANGED <<store, now>>

\* GET /objects/?tags=...
List ==
  \E user \in Callers, filt \in TagFilters :
    /\ Idle
    /\ before' = store
    /\ req' = Request("list", user, 0, {}, {}, FALSE, filt)
    /\ resp' = Response(200, ListRows(user, store, filt, Len(store)), {}, "")
    /\ UNCHANGED <<store, now>>

\* GET /objects/my/  (permission_classes=[IsAuthenticated])
My ==
  \E user \in Callers :
    /\ Idle
    /\ before' = store
    /\ req' = Request("my", user, 0, {}, {}, FALSE, {})
    /\ resp' = IF is_authenticated(user)
               THEN Response(200, MyRows(user, store, Len(store)), {}, "")
               ELSE Response(401, <<>>, {}, "")
    /\ UNCHANGED <<store, now>>

\* approve_objects without filter(status=PENDING): every selected row is
\* set to approved.
ApproveObjects_withoutFilter ==
  \E user \in {u \in Users : is_staff(u)}, sel \in SUBSET Ids :
    /\ Idle
    /\ sel # {}
    /\ now < MaxTime
    /\ now' = now + 1
    /\ before' = store
    /\ req' = Request("approve", user, 0, sel, {}, FALSE, {})
    /\ store' = [i \in Ids |->
                   IF i \in sel THEN [store[i] EXCEPT !.status = "approved"]
                   ELSE store[i]]
    /\ resp' = Response(200, <<>>, {}, "")

\* The admin action approve_objects on a selection of records: one UPDATE
\* of the status column of the selected pending rows.  The action names the
\* statuses CulturalObject.Status.PENDING / APPROVED; models.py declares them
\* as the STATUS_CHOICES values 'pending' / 'approved', which is how they are
\* read here.
ApproveObjects ==
  \E user \in {u \in Users : is_staff(u)}, sel \in SUBSET Ids :
    /\ Idle
    /\ \E i \in sel : store[i].status = "pending"
    /\ now < MaxTime
    /\ now' = now + 1
    /\ before' = store
    /\ req' = Request("approve", user, 0, sel, {}, FALSE, {})
    /\ store' = [i \in Ids |->
                   IF i \in sel /\ store[i].status = "pending"
                   THEN [store[i] EXCEPT !.status = "approved"]
                   ELSE store[i]]
    /\ resp' = Response(200, <<>>, {}, "")

\* The admin action restore_objects: restore() on every selected archived
\* record.
RestoreObjects ==
  \E user \in {u \in Users : is_staff(u)}, sel \in SUBSET Ids :
    /\ Idle
    /\ \E i \in sel : store[i].status = "archived"
    /\ now < MaxTime
    /\ now' = now + 1
    /\ before' = store
    /\ req' = Request("restore", user, 0, sel, {}, FALSE, {})
    /\ store' = [i \in Ids |->
                   IF i \in sel /\ store[i].status = "archived"
                   THEN restore(store[i])
                   ELSE store[i]]
    /\ resp' = Response(200, <<>>, {}, "")

\* obj.archive() called on a stored record, whatever its status.
ModelArchive ==
  \E id \in Ids :
    /\ Idle
    /\ now < MaxTime
    /\ now' = now + 1
    /\ before' = store
    /\ req' = Request("obj.archive", Anonymous, id, {}, {}, FALSE, {})
    /\ store' = [store EXCEPT ![id] = archive(@, now + 1)]
    /\ resp' = Response(0, <<>>, {}, "")

\* obj.restore() called on a stored record, whatever its status.
ModelRestore ==
  \E id \in Ids :
    /\ Idle
    /\ now < MaxTime
    /\ now' = now + 1
    /\ before' = store
    /\ req' = Request("obj.restore", Anonymous, id, {}, {}, FALSE, {})
    /\ store' = [store EXCEPT ![id] = restore(@)]
    /\ resp' = Response(0, <<>>, {}, "")

\* The response is sent and the request ends.
Finish ==
  /\ ~Idle
  /\ req' = NoRequest
  /\ resp' = NoResponse
  /\ before' = store
  /\ UNCHANGED <<store, now>>

Next ==
  \/ Create
  \/ Update
  \/ Destroy
  \/ Retrieve
  \/ List
  \/ My
  \/ ApproveObjects
  \/ RestoreObjects
  \/ Finish

Spec == Init /\ [][Next]_vars

\* The API and the admin actions, together with direct calls of the model's
\* archive() and restore() methods.
NextModel ==
  \/ Next
  \/ ModelArchive
  \/ ModelRestore

SpecModel == Init /\ [][NextModel]_vars

\* ------------------------------------------- the write serializer alone
\* The bodies handed to ObjectWriteSerializer on its own: coordinates at and
\* around the limits, every tag list over MaxTags tags, with and without a
\* title, as a complete and as a partial write.
ValidationInputs ==
  [title : {{}, {"a"}},
   latitude : {{}, {43999}, {44000}, {50000}, {52500}, {52501}},
   longitude : {{}, {21999}, {22000}, {30000}, {40500}, {40501}},
   tags : {{}} \cup {{tg} : tg \in SUBSET (1..MaxTags)},
   status : {{}},
   author : {{}}]

InitValidate ==
  /\ store = <<>>
  /\ now = 0
  /\ before = <<>>
  /\ resp = NoResponse
  /\ req \in {Request("is_valid", "u1", 0, {}, {data}, partial, {}) :
                data \in ValidationInputs, partial \in BOOLEAN}

\* ObjectWriteSerializer(data=..., partial=...).is_valid()
IsValid ==
  /\ req.op = "is_valid"
  /\ resp = NoResponse
  /\ resp' = Response(IF Errors(The(req.data), req.partial) = {} THEN 200 ELSE 400,
                      <<>>, Errors(The(req.data), req.partial), "")
  /\ UNCHANGED <<store, now, req, before>>

NextValidate == IsValid

SpecValidate == InitValidate /\ [][NextValidate]_vars

\* ------------------------------------------------- the list with search
\* Texts are sequences of characters; " " is the blank.
lower(c) == IF c = "A" THEN "a" ELSE IF c = "B" THEN "b" ELSE c

\* The icontains lookup: the term occurs in the text, letter case ignored.
icontains(text, term) ==
  \E k \in 1..(Len(text) - Len(term) + 1) :
    \A j \in 1..Len(term) : lower(text[k + j - 1]) = lower(term[j])

RECURSIVE TermLength(_)
TermLength(s) ==
  IF s = <<>> \/ Head(s) = " " THEN 0 ELSE 1 + TermLength(Tail(s))

\* SearchFilter.get_search_terms: the search text split at blanks.
RECURSIVE get_search_terms(_)
get_search_terms(s) ==
  IF s = <<>> THEN <<>>
  ELSE IF Head(s) = " " THEN get_search_terms(Tail(s))
  ELSE <<SubSeq(s, 1, TermLength(s))>>
         \o get_search_terms(SubSeq(s, TermLength(s) + 1, Len(s)))

\* The search test with the terms joined by OR.
SearchMatches_anyTerm(obj, search) ==
  \/ search = {}
  \/ get_search_terms(The(search)) = <<>>
  \/ \E k \in 1..Len(get_search_terms(The(search))) :
       \/ icontains(obj.title, get_search_terms(The(search))[k])
       \/ icontains(obj.description, get_search_terms(The(search))[k])

\* filters.SearchFilter over search_fields = ['title', 'description']: every
\* term of the search text must occur in the title or in the description.
SearchMatches(obj, search) ==
  \/ search = {}
  \/ \A k \in 1..Len(get_search_terms(The(search))) :
       \/ icontains(obj.title, get_search_terms(The(search))[k])
       \/ icontains(obj.description, get_search_terms(The(search))[k])

\* filter_queryset: get_queryset, then the tags filter, then the search
\* filter, newest first.
RECURSIVE SearchRows(_, _, _, _, _)
SearchRows(user, objs, filt, search, i) ==
  IF i = 0 THEN <<>>
  ELSE (IF InQueryset(user, objs[i]) /\ SearchMatches(objs[i], search)
        THEN Repeat(i, FilterRows(user, objs[i], filt))
        ELSE <<>>) \o SearchRows(user, objs, filt, search, i - 1)

\* The titles and descriptions of the catalogue the searches run on.
CatalogueTexts ==
  { [title |-> <<"a", "b">>, description |-> <<>>],
    [title |-> <<"b", " ", "a">>, description |-> <<>>],
    [title |-> <<"A">>, description |-> <<"b">>],
    [title |-> <<"b">>, description |-> <<>>] }

CatalogueRecord(text, tg, st, au, t) ==
  [title |-> text.title, description |-> text.description,
   latitude |-> 50000, longitude |-> 30000, tags |-> tg,
   status |-> st, author |-> au, created_at |-> t, updated_at |-> t,
   archived_at |-> IF st = "archived" THEN t ELSE Null]

CatalogueRecords(t) ==
  {CatalogueRecord(text, tg, st, au, t) :
     text \in CatalogueTexts, tg \in {{1}, {1, 2}, {2}},
     st \in STATUS_CHOICES, au \in {"u1", "u2"}}

\* The search texts: none, one term, a term no text holds, two terms.
SearchTexts == {{}, {<<"a">>}, {<<"a", "b">>}, {<<"c">>}, {<<"a", " ", "b">>}}

\* The tags filters of the searches; no record carries tag 9.
SearchTagFilters == {{}, {{1}}, {{1, 2}}, {{9}}}

SearchRequest(user, filt, search) ==
  [op |-> "list", caller |-> user, id |-> 0, selection |-> {}, data |-> {},
   partial |-> FALSE, tags |-> filt, search |-> search]

InitSearch ==
  /\ store \in {<<r1, r2>> : r1 \in CatalogueRecords(1), r2 \in CatalogueRecords(2)}
  /\ now = 2
  /\ req = NoRequest
  /\ resp = NoResponse
  /\ before = store

\* GET /objects/?tags=...&search=...
ListSearch ==
  \E user \in {Anonymous, "u1", "admin"}, filt \in SearchTagFilters,
     search \in SearchTexts :
    /\ Idle
    /\ req' = SearchRequest(user, filt, search)
    /\ resp' = Response(200, SearchRows(user, store, filt, search, Len(store)), {}, "")
    /\ UNCHANGED <<store, now, before>>

NextSearch == ListSearch

SpecSearch == InitSearch /\ [][NextSearch]_vars

\* --------------------------------------------------- concurrent requests
\* An update request taken statement by statement while other requests run:
\* get_object reads the row into serializer.instance, serializer.save()
\* writes the whole row from that instance (one UPDATE), and the tags
\* relation is set afterwards by statements of its own.

\* Whether a request runs in one database transaction.  The settings module
\* decides it; the store is described as atomic per row write only.
ATOMIC_REQUESTS == FALSE

\* The bodies of the update taken in steps and of the updates that run
\* beside it.
ConcurrentPayloads ==
  { FullData("b", {1, 2}),
    [EmptyData EXCEPT !.title = {"b"}] }

InFlightUpdate(user, id, data, partial, instance, pc, saved_at) ==
  [op |-> "update", caller |-> user, id |-> id, selection |-> {},
   data |-> {data}, partial |-> partial, tags |-> {},
   instance |-> instance, pc |-> pc, saved_at |-> saved_at]

InFlight == "pc" \in DOMAIN req /\ req.pc # "done"

\* What a request running beside the update is answered, with the row it
\* read or wrote.
Observation(op, user, code, id, row) ==
  [code |-> code, rows |-> <<id>>, errors |-> {}, detail |-> "",
   op |-> op, caller |-> user, row |-> row]

\* get_object and is_valid of the update: the row is read into the instance.
UpdateLocate ==
  \E user \in Users, id \in Ids, data \in ConcurrentPayloads, partial \in BOOLEAN :
    /\ Idle
    /\ get_object("update", user, id, store) = 200
    /\ Errors(data, partial) = {}
    /\ req' = InFlightUpdate(user, id, data, partial, store[id], "located", 0)
    /\ resp' = NoResponse
    /\ before' = store
    /\ UNCHANGED <<store, now>>

\* perform_update, instance.save(): every column of the row is written from
\* the instance read earlier and the validated data.  The tags relation is
\* written with it only if the request is one transaction.
UpdateSave ==
  /\ "pc" \in DOMAIN req /\ req.pc = "located"
  /\ now < MaxTime
  /\ now' = now + 1
  /\ store' = [store EXCEPT ![req.id] =
                 IF ATOMIC_REQUESTS
                 THEN perform_update(req.caller, req.instance, The(req.data), now + 1)
                 ELSE [perform_update(req.caller, req.instance, The(req.data), now + 1)
                         EXCEPT !.tags = store[req.id].tags]]
  /\ req' = [req EXCEPT
               !.saved_at = now + 1,
               !.pc = IF ATOMIC_REQUESTS \/ The(req.data).tags = {}
                      THEN "done" ELSE "saved"]
  /\ resp' = IF ATOMIC_REQUESTS \/ The(req.data).tags = {}
             THEN Response(200, <<req.id>>, {}, "") ELSE NoResponse
  /\ UNCHANGED before

\* instance.tags.set(...) of the update, after the row was saved.
UpdateSetTags ==
  /\ "pc" \in DOMAIN req /\ req.pc = "saved"
  /\ store' = [store EXCEPT ![req.id].tags = The(The(req.data).tags)]
  /\ req' = [req EXCEPT !.pc = "done"]
  /\ resp' = Response(200, <<req.id>>, {}, "")
  /\ UNCHANGED <<now, before>>

\* GET /objects/{id}/ by another caller while the update is under way.
ConcurrentRetrieve ==
  \E user \in Callers :
    /\ InFlight
    /\ get_object("retrieve", user, req.id, store) = 200
    /\ resp' = Observation("retrieve", user, 200, req.id, store[req.id])
    /\ UNCHANGED <<store, now, req, before>>

\* DELETE /objects/{id}/ by another caller while the update is under way.
ConcurrentDestroy ==
  \E user \in Users :
    /\ InFlight
    /\ get_object("destroy", user, req.id, store) = 200
    /\ now < MaxTime
    /\ now' = now + 1
    /\ store' = [store EXCEPT ![req.id] = archive(@, now + 1)]
    /\ resp' = Observation("destroy", user, 200, req.id, store'[req.id])
    /\ UNCHANGED <<req, before>>

\* approve_objects on the record while the update is under way.
ConcurrentApprove ==
  /\ InFlight
  /\ store[req.id].status = "pending"
  /\ now < MaxTime
  /\ now' = now + 1
  /\ store' = [store EXCEPT ![req.id].status = "approved"]
  /\ resp' = Observation("approve", "admin", 200, req.id, store'[req.id])
  /\ UNCHANGED <<req, before>>

\* A whole update of the record by another caller while the first one is
\* under way.
ConcurrentUpdate ==
  \E user \in Users, data \in ConcurrentPayloads :
    /\ InFlight
    /\ get_object("update", user, req.id, store) = 200
    /\ Errors(data, TRUE) = {}
    /\ now < MaxTime
    /\ now' = now + 1
    /\ store' = [store EXCEPT ![req.id] = perform_update(user, @, data, now + 1)]
    /\ resp' = Observation("update", user, 200, req.id, store'[req.id])
    /\ UNCHANGED <<req, before>>

\* The response is sent; an update under way is not cut short.
FinishConcurrent ==
  /\ ~InFlight
  /\ Finish

NextConcurrent ==
  \/ Create
  \/ Destroy
  \/ ApproveObjects
  \/ RestoreObjects
  \/ FinishConcurrent
  \/ UpdateLocate
  \/ UpdateSave
  \/ UpdateSetTags
  \/ ConcurrentRetrieve
  \/ ConcurrentDestroy
  \/ ConcurrentApprove
  \/ ConcurrentUpdate

SpecConcurrent == Init /\ [][NextConcurrent]_vars

\* ================================================================ claims
Range(seq) == {seq[k] : k \in 1..Len(seq)}
NoDuplicates(seq) == \A j, k \in 1..Len(seq) : seq[j] = seq[k] => j = k

\* The request being answered is `op`, on an id that existed when it arrived.
OnRecord(op) == req.op = op /\ req.id \in 1..Len(before)

\* Every record other than `id` is as it was when the request arrived.
OthersUnchanged(id) ==
  /\ Len(store) = Len(before)
  /\ \A i \in Ids : i # id => store[i] = before[i]

WriteFields == {"title", "latitude", "longitude", "tags"}

\* C1: in every reachable state every record has archived_at non-null if and
\* only if its status is archived.
C1_ArchivedAtIffArchived ==
  \A i \in Ids : (store[i].archived_at # Null) <=> (store[i].status = "archived")

C1_Witness ==
  /\ req.op = "restore"
  /\ \E i \in req.selection :
       /\ before[i].status = "archived" /\ before[i].archived_at # Null
       /\ store[i].status = "pending" /\ store[i].archived_at = Null

\* C2: a create by an authenticated caller either fails validation or stores
\* one new record whose status is pending and whose author is the caller,
\* whatever status and author keys the payload carries.
C2_CreateIsPendingAndOwned ==
  (req.op = "create" /\ is_authenticated(req.caller)) =>
    /\ resp.code \in {201, 400}
    /\ resp.code = 201 =>
         /\ Len(store) = Len(before) + 1
         /\ \A i \in 1..Len(before) : store[i] = before[i]
         /\ store[Len(store)].status = "pending"
         /\ store[Len(store)].author = req.caller
         /\ store[Len(store)].archived_at = Null

C2_Witness ==
  /\ req.op = "create" /\ resp.code = 201
  /\ The(req.data).status = {"approved"}
  /\ The(req.data).author # {} /\ The(The(req.data).author) # req.caller
  /\ store[Len(store)].status = "pending"

\* C3: a successful update by a non-staff caller of a record that was
\* approved applies the submitted fields and leaves the record pending with
\* archived_at null.
C3_NonStaffEditOfApprovedGoesPending ==
  (OnRecord("update") /\ resp.code = 200 /\ ~is_staff(req.caller)
     /\ before[req.id].status = "approved") =>
    /\ store[req.id].status = "pending"
    /\ store[req.id].archived_at = Null
    /\ \A f \in WriteFields :
         store[req.id][f] = IF The(req.data)[f] # {}
                            THEN The(The(req.data)[f]) ELSE before[req.id][f]

C3_Witness ==
  /\ OnRecord("update") /\ resp.code = 200 /\ ~is_staff(req.caller)
  /\ before[req.id].status = "approved"
  /\ store[req.id].status = "pending"
  /\ store[req.id].title # before[req.id].title

\* C4: a successful update by a staff caller, or of a record that was not
\* approved, leaves the status as it was; and no update gives a record the
\* status approved or archived unless it had it already.
C4_UpdateKeepsStatusOtherwise ==
  (OnRecord("update") /\ resp.code = 200) =>
    /\ (is_staff(req.caller) \/ before[req.id].status # "approved") =>
         store[req.id].status = before[req.id].status
    /\ store[req.id].status \in {"approved", "archived"} =>
         store[req.id].status = before[req.id].status
    /\ OthersUnchanged(req.id)

C4_Witness ==
  /\ OnRecord("update") /\ resp.code = 200 /\ is_staff(req.caller)
  /\ before[req.id].status = "approved" /\ before[req.id].author # req.caller
  /\ store[req.id].status = "approved"
  /\ store[req.id].title # before[req.id].title

\* C5: list without filters returns, each once: to staff every non-archived
\* record; to an authenticated non-staff caller the approved records and the
\* caller's own non-archived ones; to an anonymous caller the approved ones.
C5_Expected(user) ==
  IF is_staff(user)
  THEN {i \in Ids : store[i].status # "archived"}
  ELSE IF is_authenticated(user)
  THEN {i \in Ids : \/ store[i].status = "approved"
                    \/ store[i].status # "archived" /\ store[i].author = user}
  ELSE {i \in Ids : store[i].status = "approved"}

C5_ListReturnsVisibleSet ==
  (req.op = "list" /\ req.tags = {}) =>
    /\ resp.code = 200
    /\ NoDuplicates(resp.rows)
    /\ Range(resp.rows) = C5_Expected(req.caller)
    /\ ~is_staff(req.caller) =>
         \A i \in Range(resp.rows) :
           store[i].status = "pending" => store[i].author = req.caller

C5_Witness ==
  /\ req.op = "list" /\ req.tags = {}
  /\ is_authenticated(req.caller) /\ ~is_staff(req.caller)
  /\ \E i, j \in Ids :
       /\ store[i].status = "pending" /\ store[i].author = req.caller
       /\ store[j].status = "pending" /\ store[j].author # req.caller
       /\ i \in Range(resp.rows) /\ j \notin Range(resp.rows)

\* C6: no list, retrieve or my response names an archived record, and in no
\* reachable store would any caller's list, retrieve or my name one.
C6_ArchivedNeverReturned ==
  /\ req.op \in {"list", "retrieve", "my"} =>
       \A i \in Range(resp.rows) : store[i].status # "archived"
  /\ \A user \in Callers, i \in Ids :
       store[i].status = "archived" =>
         /\ \A filt \in TagFilters :
              i \notin Range(ListRows(user, store, filt, Len(store)))
         /\ i \notin Range(MyRows(user, store, Len(store)))
         /\ get_object("retrieve", user, i, store) # 200

C6_Witness ==
  /\ req.op = "list" /\ req.tags = {}
  /\ \E i, j \in Ids :
       /\ store[i].status = "archived"
       /\ req.caller \in {store[i].author, "admin"}
       /\ i \notin Range(resp.rows) /\ j \in Range(resp.rows)

\* C7: on a record outside the caller's visible set, retrieve answers 404
\* and update and archive by an authenticated caller answer 404, never 403,
\* and change nothing; the author retrieving their own pending record
\* succeeds.
C7_Hidden(user, obj) ==
  \/ obj.status = "archived"
  \/ obj.status = "pending" /\ ~is_staff(user) /\ obj.author # user

C7_HiddenIsNotFound ==
  /\ ( /\ \/ OnRecord("retrieve")
          \/ OnRecord("update") /\ is_authenticated(req.caller)
          \/ OnRecord("destroy") /\ is_authenticated(req.caller)
       /\ C7_Hidden(req.caller, before[req.id]) ) =>
       resp.code = 404 /\ store = before
  /\ ( OnRecord("retrieve") /\ before[req.id].status = "pending"
         /\ before[req.id].author = req.caller ) =>
       resp.code = 200 /\ resp.rows = <<req.id>>

C7_Witness ==
  /\ OnRecord("update") /\ resp.code = 404
  /\ is_authenticated(req.caller) /\ ~is_staff(req.caller)
  /\ before[req.id].status = "pending" /\ before[req.id].author # req.caller

\* C8: update and archive of a visible record answer 403 and change nothing
\* when the authenticated caller is neither staff nor the author, and are
\* not refused when the caller is staff or the author.
C8_Visible(user, obj) ==
  /\ obj.status # "archived"
  /\ (is_staff(user) \/ obj.status = "approved" \/ obj.author = user)

C8_OnlyAuthorOrStaffWrites ==
  ( /\ OnRecord("update") \/ OnRecord("destroy")
    /\ is_authenticated(req.caller)
    /\ C8_Visible(req.caller, before[req.id]) ) =>
    IF is_staff(req.caller) \/ before[req.id].author = req.caller
    THEN resp.code \in {200, 400}
    ELSE resp.code = 403 /\ store = before

C8_Witness ==
  /\ OnRecord("update") /\ resp.code = 403
  /\ is_authenticated(req.caller) /\ ~is_staff(req.caller)
  /\ before[req.id].status = "approved" /\ before[req.id].author # req.caller
  /\ store = before

C10_SecondArchiveNotFoundForAnyCaller ==
  (OnRecord("destroy") /\ before[req.id].status = "archived") =>
    resp.code = 404 /\ store = before

\* C10 as amended: the second archive call answers 404 to every authenticated
\* caller, the author and staff included, and 401 to an anonymous caller; in
\* both cases status and archived_at stay as the first call left them.
C10_SecondArchiveNotFoundWhenAuthenticated ==
  (OnRecord("destroy") /\ before[req.id].status = "archived") =>
    /\ resp.code = IF is_authenticated(req.caller) THEN 404 ELSE 401
    /\ store = before
    /\ store[req.id].status = "archived"
    /\ store[req.id].archived_at # Null

C10_Witness ==
  /\ OnRecord("destroy") /\ resp.code = 404
  /\ before[req.id].status = "archived"
  /\ req.caller = before[req.id].author
  /\ store[req.id].archived_at = before[req.id].archived_at

\* C11: restore() on a record that is not archived changes nothing; restore()
\* on an archived record sets status to pending and archived_at to null.
C11_RestoreOnlyActsOnArchived ==
  OnRecord("obj.restore") =>
    /\ OthersUnchanged(req.id)
    /\ store[req.id] =
         IF before[req.id].status # "archived"
         THEN before[req.id]
         ELSE [before[req.id] EXCEPT !.status = "pending", !.archived_at = Null]

\* C12: for an authenticated caller, staff or not, my returns exactly the
\* caller's own pending and approved records, each once.
C12_MyReturnsOwnNonArchived ==
  (req.op = "my" /\ is_authenticated(req.caller)) =>
    /\ resp.code = 200
    /\ NoDuplicates(resp.rows)
    /\ Range(resp.rows) =
         {i \in Ids : /\ store[i].author = req.caller
                       /\ store[i].status \in {"pending", "approved"}}

C12_Witness ==
  /\ req.op = "my" /\ is_staff(req.caller)
  /\ \E i, j \in Ids :
       /\ store[i].author = req.caller /\ store[i].status = "pending"
       /\ store[j].author # req.caller /\ store[j].status # "archived"
       /\ resp.rows = <<i>>

\* C13: an anonymous create or my is answered 401, and the refused create
\* leaves the store as it was.
C13_AnonymousIsUnauthenticated ==
  (req.op \in {"create", "my"} /\ ~is_authenticated(req.caller)) =>
    /\ resp.code = 401
    /\ store = before

C13_Witness ==
  /\ req.op = "create" /\ req.caller = Anonymous /\ resp.code = 401
  /\ Len(store) = 1 /\ store = before

\* C14: the answer to retrieve, update, archive and list is a function of the
\* request and of the caller's visible set alone (the visible ids with their
\* records), so it is the same in any two stores that agree on that set: an
\* id that does not exist, one that is hidden and one that is archived are
\* all answered alike.
C14_View(user, objs) ==
  [i \in {k \in 1..Len(objs) : C8_Visible(user, objs[k])} |-> objs[i]]

RECURSIVE C14_Rows(_, _, _, _)
C14_Rows(view, user, filt, i) ==
  IF i = 0 THEN <<>>
  ELSE (IF i \in DOMAIN view
        THEN Repeat(i, FilterRows(user, view[i], filt))
        ELSE <<>>) \o C14_Rows(view, user, filt, i - 1)

C14_Code(r, view) ==
  IF r.op = "retrieve"
  THEN (IF r.id \in DOMAIN view THEN {200} ELSE {404})
  ELSE IF ~is_authenticated(r.caller) THEN {401}
  ELSE IF r.id \notin DOMAIN view THEN {404}
  ELSE IF ~is_staff(r.caller) /\ view[r.id].author # r.caller THEN {403}
  ELSE IF r.op = "destroy" THEN {200}
  ELSE {IF Errors(The(r.data), r.partial) = {} THEN 200 ELSE 400}

C14_OutcomeDependsOnVisibleSetOnly ==
  /\ req.op \in {"retrieve", "update", "destroy"} =>
       /\ resp.code \in C14_Code(req, C14_View(req.caller, before))
       /\ resp.code \in {401, 403, 404} => store = before /\ resp.rows = <<>>
  /\ req.op = "list" =>
       resp.rows = C14_Rows(C14_View(req.caller, before), req.caller, req.tags,
                            MaxRecords)

C14_Witness ==
  /\ OnRecord("destroy") /\ resp.code = 404
  /\ is_authenticated(req.caller) /\ ~is_staff(req.caller)
  /\ before[req.id].status = "pending" /\ before[req.id].author # req.caller
  /\ req.id \notin DOMAIN C14_View(req.caller, before)

\* The serializer has answered the body in req.
Validated == req.op = "is_valid" /\ resp # NoResponse
Body == The(req.data)

\* C15: a submitted latitude is rejected, with the error under the latitude
\* key, exactly when it lies outside 44.0 .. 52.5, and a longitude, under the
\* longitude key, exactly when it lies outside 22.0 .. 40.5, the limits
\* themselves being accepted; a coordinate absent from a partial write is
\* not checked.
C15_CoordinateLimitsInclusive ==
  Validated =>
    /\ Body.latitude # {} =>
         ("latitude" \in resp.errors <=>
            ~(44000 <= The(Body.latitude) /\ The(Body.latitude) <= 52500))
    /\ Body.longitude # {} =>
         ("longitude" \in resp.errors <=>
            ~(22000 <= The(Body.longitude) /\ The(Body.longitude) <= 40500))
    /\ (Body.latitude = {} /\ req.partial) => "latitude" \notin resp.errors
    /\ (Body.longitude = {} /\ req.partial) => "longitude" \notin resp.errors
    /\ resp.code = IF resp.errors = {} THEN 200 ELSE 400

C15_Witness ==
  /\ Validated /\ ~req.partial
  /\ Body.latitude = {44000} /\ Body.longitude = {40501}
  /\ resp.code = 400 /\ resp.errors = {"longitude"}

\* C16: a submitted tags value is rejected, with the error under the tags
\* key, exactly when it holds fewer than 1 or more than 5 tags.
C16_TagCountOneToFive ==
  (Validated /\ Body.tags # {}) =>
    ("tags" \in resp.errors <=>
       ~(1 <= Cardinality(The(Body.tags)) /\ Cardinality(The(Body.tags)) <= 5))

C16_Witness ==
  /\ Validated /\ ~req.partial
  /\ Body.tags # {} /\ Cardinality(The(Body.tags)) = 6
  /\ resp.code = 400 /\ resp.errors = {"tags"}

\* C17: a create or update whose body is invalid (a required field missing
\* from a complete write, a coordinate out of range, a wrong tag count) is
\* answered 400 and leaves every record, its status and timestamps included,
\* as it was; an invalid create adds no record.
C17_Invalid(data, partial) ==
  \/ ~partial /\ \E f \in WriteFields : data[f] = {}
  \/ data.latitude # {} /\ ~(44000 <= The(data.latitude) /\ The(data.latitude) <= 52500)
  \/ data.longitude # {} /\ ~(22000 <= The(data.longitude) /\ The(data.longitude) <= 40500)
  \/ data.tags # {} /\ Cardinality(The(data.tags)) \notin 1..5

C17_InvalidWriteChangesNothing ==
  /\ resp.code = 400 => store = before
  /\ (req.op \in {"create", "update"} /\ req.data # {}
        /\ C17_Invalid(The(req.data), req.partial)) =>
       resp.code = 400 /\ store = before

C17_Witness ==
  /\ OnRecord("update") /\ resp.code = 400
  /\ ~is_staff(req.caller) /\ before[req.id].author = req.caller
  /\ before[req.id].status = "approved"
  /\ store[req.id].status = "approved" /\ store = before

\* C18: every change of a record's status made by one step is pending to
\* approved by the admin approve action, approved to pending by a non-staff
\* update of that record, pending or approved to archived by an archive of
\* that record, or archived to pending by the admin restore action; a new
\* record starts pending.  In particular no step takes a record from
\* archived to approved.
C18_Allowed(from, to, i) ==
  \/ from = "pending" /\ to = "approved" /\ req.op = "approve" /\ i \in req.selection
  \/ /\ from = "approved" /\ to = "pending"
     /\ req.op = "update" /\ req.id = i /\ ~is_staff(req.caller)
  \/ /\ from \in {"pending", "approved"} /\ to = "archived"
     /\ req.op = "destroy" /\ req.id = i
  \/ from = "archived" /\ to = "pending" /\ req.op = "restore" /\ i \in req.selection

C19_Violated(f) ==
  \/ Body[f] = {} /\ ~req.partial
  \/ /\ f = "latitude" /\ Body[f] # {}
     /\ (The(Body[f]) < 44000 \/ The(Body[f]) > 52500)
  \/ /\ f = "longitude" /\ Body[f] # {}
     /\ (The(Body[f]) < 22000 \/ The(Body[f]) > 40500)
  \/ /\ f = "tags" /\ Body[f] # {}
     /\ Cardinality(The(Body[f])) \notin 1..5

C19_EveryViolatedFieldIsNamed ==
  Validated =>
    \A f \in {"title", "latitude", "longitude", "tags"} :
      C19_Violated(f) => resp.code = 400 /\ f \in resp.errors

C19_Witness ==
  /\ Validated
  /\ Body.title # {}
  /\ Body.latitude = {52501} /\ Body.longitude = {21999}
  /\ Body.tags # {} /\ Cardinality(The(Body.tags)) = 6
  /\ resp.code = 400
  /\ resp.errors = {"latitude", "longitude", "tags"}

\* C20: archived_at is written only by a step that moves a record into
\* archived or out of archived; while a record stays archived its
\* archived_at does not change, so archiving an already-archived record
\* leaves archived_at at the value the first archive set.
C20_ArchivedAtWrittenOnlyOnTransition ==
  \A i \in 1..Len(before) :
    i <= Len(store) /\ store[i].archived_at # before[i].archived_at =>
      (before[i].status = "archived") # (store[i].status = "archived")

\* C21: in every state reached by API creates, full updates and partial
\* updates, with valid or invalid payloads, every stored record has a
\* latitude within 44.0 .. 52.5, a longitude within 22.0 .. 40.5 and between
\* one and five tags.
C21_StoredRecordsWithinLimits ==
  \A i \in Ids :
    /\ 44000 <= store[i].latitude /\ store[i].latitude <= 52500
    /\ 22000 <= store[i].longitude /\ store[i].longitude <= 40500
    /\ 1 <= Cardinality(store[i].tags) /\ Cardinality(store[i].tags) <= 5

C21_Witness ==
  /\ OnRecord("update") /\ req.data # {}
  /\ The(req.data).tags # {} /\ Cardinality(The(The(req.data).tags)) > 5
  /\ resp.code = 400
  /\ store = before
  /\ C21_StoredRecordsWithinLimits

\* C22: after every successful update, archive and restore of a record its
\* updated_at equals the time of that operation and is later than it was
\* before the operation.
C22_Stamped(i) ==
  store[i].updated_at = now /\ store[i].updated_at > before[i].updated_at

C22_UpdatedAtSetOnEveryMutation ==
  /\ (OnRecord("update") /\ resp.code = 200) => C22_Stamped(req.id)
  /\ (OnRecord("destroy") /\ resp.code = 200) => C22_Stamped(req.id)
  /\ req.op = "restore" =>
       \A i \in req.selection : before[i].status = "archived" => C22_Stamped(i)

\* C23 (as stated): for every caller and every combination of the tags and
\* search filters, list returns the records of the caller's visible set that
\* carry at least one of the requested tag ids and whose title or
\* description contains the search text; a tag id no record carries gives an
\* empty result with status 200.
C23_Searched == req.op = "list" /\ resp # NoResponse /\ "search" \in DOMAIN req

C23_TagMatch(i) == req.tags = {} \/ store[i].tags \cap The(req.tags) # {}

C23_ContainsText(i) ==
  \/ req.search = {}
  \/ icontains(store[i].title, The(req.search))
  \/ icontains(store[i].description, The(req.search))

C23_ContainsTerms(i) ==
  \/ req.search = {}
  \/ \A k \in 1..Len(get_search_terms(The(req.search))) :
       \E f \in {"title", "description"} :
         icontains(store[i][f], get_search_terms(The(req.search))[k])

C24_TagsReplacedWholesale ==
  (OnRecord("update") /\ resp.code = 200) =>
    /\ The(req.data).tags # {} => store[req.id].tags = The(The(req.data).tags)
    /\ The(req.data).tags = {} =>
         req.partial /\ store[req.id].tags = before[req.id].tags

C24_Witness ==
  /\ OnRecord("update") /\ resp.code = 200
  /\ The(req.data).tags = {{2}}
  /\ before[req.id].tags = {1, 2}
  /\ store[req.id].tags = {2}

\* C26: no update (by the author or by staff, whatever author, status or
\* created_at the payload carries), archive, restore or approve changes a
\* record's author or its created_at.
C26_AuthorAndCreatedAtFixed ==
  /\ Len(before) <= Len(store)
  /\ \A i \in 1..Len(before) :
       /\ store[i].author = before[i].author
       /\ store[i].created_at = before[i].created_at

C26_Witness ==
  /\ OnRecord("update") /\ resp.code = 200 /\ is_staff(req.caller)
  /\ The(req.data).author = {"admin"}
  /\ before[req.id].author = "u1" /\ store[req.id].author = "u1"
  /\ store[req.id].updated_at > store[req.id].created_at

\* C27: a record an anonymous caller can list or retrieve after a step
\* either was already visible to anonymous callers with the same content
\* before the step, or has just been approved by the admin approve action
\* with its content left as it was, or has just been written by a staff
\* caller.  So content written by a non-staff caller is not visible to an
\* anonymous caller before a later approve.
C27_Content(obj) == [f \in WriteFields |-> obj[f]]

C27_AnonymousSeesOnlyModeratedContent ==
  \A i \in get_queryset(Anonymous, store) :
    \/ /\ i \in get_queryset(Anonymous, before)
       /\ C27_Content(store[i]) = C27_Content(before[i])
    \/ /\ req.op = "approve" /\ i \in req.selection /\ i <= Len(before)
       /\ C27_Content(store[i]) = C27_Content(before[i])
    \/ req.op = "update" /\ req.id = i /\ is_staff(req.caller)

C27_Witness ==
  /\ OnRecord("update") /\ resp.code = 200 /\ ~is_staff(req.caller)
  /\ req.id \in get_queryset(Anonymous, before)
  /\ C27_Content(store[req.id]) # C27_Content(before[req.id])
  /\ req.id \notin get_queryset(Anonymous, store)

\* C29: for every caller role and every tags filter, list returns each
\* visible record at most once; a record that carries two or more of the
\* requested tag ids appears exactly once.
C29_ListHasNoRepeatedRecord ==
  req.op = "list" => NoDuplicates(resp.rows)

\* C30: a create, update or archive request of an anonymous caller, on any
\* id and in any store state, is refused and leaves every record as it was.
C30_AnonymousNeverChangesStore ==
  (req.caller = Anonymous /\ req.op \in {"create", "update", "destroy"}) =>
    resp.code = 401 /\ store = before

C30_Witness ==
  /\ OnRecord("destroy") /\ req.caller = Anonymous
  /\ before[req.id].status = "approved"
  /\ resp.code = 401
  /\ store = before

\* C25: while an update is applied beside other requests on the same record,
\* no request reads a row that carries the update's new field values without
\* the pending status it forces or without its new tag set.
C25_RowOfUpdate(row) ==
  "pc" \in DOMAIN req /\ req.pc \in {"saved", "done"} /\ row.updated_at = req.saved_at

C25_NoPartialUpdateObserved ==
  ("row" \in DOMAIN resp /\ resp.op = "retrieve" /\ C25_RowOfUpdate(resp.row)) =>
    /\ The(req.data).tags # {} => resp.row.tags = The(The(req.data).tags)
    /\ (~is_staff(req.caller) /\ req.instance.status = "approved") =>
         resp.row.status = "pending"

\* C28: once a record is archived it stays archived, with archived_at set,
\* until a restore is applied; an update that read the record before the
\* archive wrote does not put it back to pending or approved.
C28_ArchivedUntilRestore ==
  [][\A i \in 1..Len(store) :
       store[i].status = "archived" =>
         \/ store'[i].status = "archived" /\ store'[i].archived_at # Null
         \/ req'.op = "restore" /\ i \in req'.selection]_vars

====
